---- MODULE Spec2Model ----
(***************************************************************************)
(* Model of src/main.py: ImageStoryGenerator (process_image,                *)
(* generate_story_from_image) and the widget callbacks of run().            *)
(*                                                                         *)
(* Text is a sequence of one-character strings.  The fixed pieces of a      *)
(* prompt template are kept as single elements of such a sequence; every    *)
(* interpolated value (names, genre, length, description list) is expanded  *)
(* character by character, the way the f-string formats it.                 *)
(***************************************************************************)
EXTENDS Integers, Sequences, FiniteSets, TLC

VARIABLES
    file_upload,    \* file_upload.value, the uploaded files
    genre_input,    \* genre_input.value, the Dropdown's selection
    length_input,   \* length_input.value, the IntSlider's position
    handlers,       \* click callbacks registered on generate_button, in order
    pending,        \* callbacks of the click being dispatched, still to run
    fired,          \* uploads whose callback ran in the current or last click
    sent,           \* requests issued by the callback that ran last
    displayed,      \* output rendered by the callback that ran last
    uploads,        \* per upload event: the image and what process_image gave
    nVision,        \* vision requests issued so far
    nText,          \* text-completion requests issued so far
    nStories,       \* calls of generate_story_from_image so far
    nClicks,        \* clicks of generate_button so far
    composed,       \* the call of generate_story_from_image by that callback
    frame           \* one direct call of a method: arguments and result

vars == <<file_upload, genre_input, length_input, handlers, pending, fired, sent, displayed,
          uploads, nVision, nText, nStories, nClicks, composed, frame>>

ui_vars == <<file_upload, genre_input, length_input, handlers, pending, fired, sent,
             displayed, uploads, nVision, nText, nStories, nClicks, composed>>

----------------------------------------------------------------------------
(* Bounds of the model *)

MaxTextLen == 4
MaxImageLen == 1
MaxNames == 2
MaxEvents == 3

----------------------------------------------------------------------------
(* Program constants *)

max_tokens == 400
model == "gpt-4o-mini"
endpoint == "https://api.openai.com/v1/chat/completions"
image_processing_prompt == "image_processing_prompt"
ErrorStory == "Error generating story."

options == <<
    <<"a", "d", "v", "e", "n", "t", "u", "r", "e">>,
    <<"f", "a", "n", "t", "a", "s", "y">>,
    <<"m", "y", "s", "t", "e", "r", "y">>,
    <<"d", "r", "a", "m", "a">>,
    <<"h", "o", "r", "r", "o", "r">>,
    <<"a", "c", "t", "i", "o", "n">> >>

slider_min == 100
slider_max == 500
slider_step == 50
slider_value == 200

----------------------------------------------------------------------------
(* Text *)

NL == "\n"

TextAlphabet == {"A", "B", NL}

RECURSIVE SeqsUpTo(_, _)
SeqsUpTo(S, n) ==
    IF n = 0 THEN {<<>>}
    ELSE LET shorter == SeqsUpTo(S, n - 1)
         IN  shorter \cup {Append(s, x) : s \in shorter, x \in S}

\* sep.join(parts)
RECURSIVE join(_, _)
join(sep, parts) ==
    IF parts = <<>> THEN <<>>
    ELSE IF Len(parts) = 1 THEN parts[1]
    ELSE parts[1] \o sep \o join(sep, Tail(parts))

\* text.split(sep) for a one-character separator: every piece between two
\* separators is kept, the empty ones too; "".split(sep) is [""].
RECURSIVE split(_, _)
split(text, sep) ==
    IF \A i \in 1..Len(text) : text[i] # sep THEN <<text>>
    ELSE LET i == CHOOSE k \in 1..Len(text) :
                      text[k] = sep /\ \A j \in 1..(k - 1) : text[j] # sep
         IN  <<SubSeq(text, 1, i - 1)>> \o split(SubSeq(text, i + 1, Len(text)), sep)

Whitespace == {" ", NL}

\* s.strip()
RECURSIVE strip(_)
strip(s) ==
    IF s = <<>> THEN s
    ELSE IF Head(s) \in Whitespace THEN strip(Tail(s))
    ELSE IF s[Len(s)] \in Whitespace THEN strip(SubSeq(s, 1, Len(s) - 1))
    ELSE s

Digits == <<"0", "1", "2", "3", "4", "5", "6", "7", "8", "9">>

\* str(n) of an int
RECURSIVE NatToStr(_)
NatToStr(n) ==
    IF n < 10 THEN <<Digits[n + 1]>>
    ELSE Append(NatToStr(n \div 10), Digits[(n % 10) + 1])

IntToStr(n) == IF n < 0 THEN <<"-">> \o NatToStr(0 - n) ELSE NatToStr(n)

\* repr of a list of str (no element holds a quote or a line break)
repr_list(xs) ==
    <<"[">> \o join(<<",", " ">>, [i \in 1..Len(xs) |-> <<"'">> \o xs[i] \o <<"'">>])
           \o <<"]">>

B64Alphabet == <<
    "A", "B", "C", "D", "E", "F", "G", "H", "I", "J", "K", "L", "M", "N", "O", "P",
    "Q", "R", "S", "T", "U", "V", "W", "X", "Y", "Z", "a", "b", "c", "d", "e", "f",
    "g", "h", "i", "j", "k", "l", "m", "n", "o", "p", "q", "r", "s", "t", "u", "v",
    "w", "x", "y", "z", "0", "1", "2", "3", "4", "5", "6", "7", "8", "9", "+", "/" >>

\* base64.b64encode(data).decode("utf-8")
RECURSIVE b64encode(_)
b64encode(data) ==
    IF data = <<>> THEN <<>>
    ELSE LET n  == Len(data)
             b1 == data[1]
             b2 == IF n >= 2 THEN data[2] ELSE 0
             b3 == IF n >= 3 THEN data[3] ELSE 0
             c1 == B64Alphabet[(b1 \div 4) + 1]
             c2 == B64Alphabet[((b1 % 4) * 16 + (b2 \div 16)) + 1]
             c3 == B64Alphabet[((b2 % 16) * 4 + (b3 \div 64)) + 1]
             c4 == B64Alphabet[(b3 % 64) + 1]
         IN  IF n = 1 THEN <<c1, c2, "=", "=">>
             ELSE IF n = 2 THEN <<c1, c2, c3, "=">>
             ELSE <<c1, c2, c3, c4>> \o b64encode(SubSeq(data, 4, n))

----------------------------------------------------------------------------
(* The completion endpoint, as the two methods see it *)

\* What one POST can come to.  Each kind but "ok" makes a statement of the
\* try block raise.
FailureKinds ==
    {"connection_error", "http_error", "not_json", "no_choices",
     "empty_choices", "no_message", "no_content"}

\* The exception a response raises between requests.post and
\* result['choices'][0]['message']['content'], "none" when there is none.
response_exception(response) ==
    CASE response.kind = "connection_error" -> "ConnectionError"
      [] response.kind = "http_error"       -> "HTTPError"
      [] response.kind = "not_json"         -> "JSONDecodeError"
      [] response.kind = "no_choices"       -> "KeyError"
      [] response.kind = "empty_choices"    -> "IndexError"
      [] response.kind = "no_message"       -> "KeyError"
      [] response.kind = "no_content"       -> "KeyError"
      [] OTHER                              -> "none"

Failures == {[kind |-> k, content |-> <<>>] : k \in FailureKinds}

\* A body whose content is null: .split raises AttributeError.
NullContent == [kind |-> "null_content", content |-> <<>>]

Texts == SeqsUpTo(TextAlphabet, MaxTextLen)

VisionResponses ==
    Failures \cup {NullContent} \cup {[kind |-> "ok", content |-> t] : t \in Texts}

Images == SeqsUpTo({255}, MaxImageLen)

----------------------------------------------------------------------------
(* ImageStoryGenerator.process_image *)

vision_request(image_data) ==
    [url        |-> endpoint,
     model      |-> model,
     text       |-> image_processing_prompt,
     image_url  |-> <<"data:image/jpeg;base64,">> \o b64encode(image_data),
     max_tokens |-> max_tokens]

\* The try block: the request it sends and either the exception that leaves
\* it or the value it returns.
process_image_try(image_data, response) ==
    LET exc == IF response.kind = "null_content" THEN "AttributeError"
               ELSE response_exception(response)
    IN  [requests     |-> <<vision_request(image_data)>>,
         exception    |-> exc,
         descriptions |-> IF exc = "none" THEN split(response.content, NL) ELSE <<>>]

\* A handler that catches the exceptions of requests only.
process_image_requests_only(image_data, response) ==
    LET body == process_image_try(image_data, response)
    IN  IF body.exception = "none"
        THEN [raised |-> FALSE, value |-> body.descriptions, requests |-> body.requests]
        ELSE IF body.exception \in {"ConnectionError", "HTTPError"}
        THEN [raised |-> FALSE, value |-> <<>>, requests |-> body.requests]
        ELSE [raised |-> TRUE, value |-> <<>>, requests |-> body.requests]

\* except Exception: every exception of the try block ends in return [].
process_image(image_data, response) ==
    LET body == process_image_try(image_data, response)
    IN  IF body.exception = "none"
        THEN [raised |-> FALSE, value |-> body.descriptions, requests |-> body.requests]
        ELSE [raised |-> FALSE, value |-> <<>>, requests |-> body.requests]

----------------------------------------------------------------------------
(* The state of run() before any event *)

NoCall == [pc |-> "none"]

UiInit ==
    /\ file_upload = <<>>
    /\ genre_input = options[1]
    /\ length_input = slider_value
    /\ handlers = <<>>
    /\ pending = <<>>
    /\ fired = <<>>
    /\ sent = <<>>
    /\ displayed = <<>>
    /\ uploads = <<>>
    /\ nVision = 0
    /\ nText = 0
    /\ nStories = 0
    /\ nClicks = 0
    /\ composed = NoCall

----------------------------------------------------------------------------
(* process_image called directly *)

InitDescribe ==
    /\ UiInit
    /\ frame \in {[pc |-> "call", image_data |-> i] : i \in Images}

DescribeCall ==
    /\ frame.pc = "call"
    /\ \E r \in VisionResponses :
          frame' = [pc         |-> "returned",
                    image_data |-> frame.image_data,
                    response   |-> r,
                    ret        |-> process_image(frame.image_data, r)]
    /\ UNCHANGED ui_vars

NextDescribe == DescribeCall

SpecDescribe == InitDescribe /\ [][NextDescribe]_vars

\* The lines of a text that are not empty, in order.
NonEmptyLines(text) == SelectSeq(split(text, NL), LAMBDA line : line # <<>>)

\* C1: for every completion text, process_image returns exactly the
\* non-empty lines of the text, in order, one entry per non-empty line, and
\* no entry is the empty string.
C1_OnlyNonEmptyLines ==
    (frame.pc = "returned" /\ frame.response.kind = "ok") =>
        /\ frame.ret.value = NonEmptyLines(frame.response.content)
        /\ \A i \in 1..Len(frame.ret.value) : frame.ret.value[i] # <<>>

\* C2: whatever failure the vision call meets, and whatever the image
\* (the zero-byte one included), process_image returns the empty sequence
\* and raises nothing.
C2_DescribeFailureGivesEmpty ==
    frame.pc = "returned" =>
        /\ ~frame.ret.raised
        /\ frame.response.kind # "ok" => frame.ret.value = <<>>

C2_Witness ==
    /\ frame.pc = "returned"
    /\ frame.image_data = <<>>
    /\ frame.response.kind = "no_choices"
    /\ frame.ret.value = <<>>
    /\ ~frame.ret.raised

----------------------------------------------------------------------------
(* ImageStoryGenerator.generate_story_from_image *)

temperature == "0.5"

TextFailures == {[kind |-> k, content |-> ""] : k \in FailureKinds}

StoryTexts == {"Alex crept through the fog...", ""}

\* The answers to the text-completion request: the failures, and a body
\* whose content is a string.
TextResponses == TextFailures \cup {[kind |-> "ok", content |-> s] : s \in StoryTexts}

SampleTexts == {<<"A">>, <<"A", NL, "B">>}

SampleVisionResponses ==
    Failures \cup {NullContent} \cup {[kind |-> "ok", content |-> t] : t \in SampleTexts}

Reverse(s) == [i \in 1..Len(s) |-> s[Len(s) + 1 - i]]

\* The names joined last first.
names_list_reversed(people_names) == join(<<",", " ">>, Reverse(people_names))

\* ", ".join(people_names)
names_list(people_names) == join(<<",", " ">>, people_names)

\* The f-string of story_prompt.
story_prompt(people_names, genre, desired_length, image_content) ==
    <<"\n        Based on the following image description and the provided character names: ">>
    \o names_list(people_names)
    \o <<", create a short story in the first person that is engaging and creative for a ">>
    \o genre
    \o <<" audience. The story should be no more than ">>
    \o IntToStr(desired_length)
    \o <<" words.\n\n        Image Description:\n        ">>
    \o repr_list(image_content)
    \o <<"\n        ">>

text_request(prompt) ==
    [url         |-> endpoint,
     model       |-> model,
     content     |-> prompt,
     max_tokens  |-> max_tokens,
     temperature |-> temperature]

\* A handler that catches the exceptions of requests only.
story_except_requests_only(exception) == exception \in {"ConnectionError", "HTTPError"}

\* except Exception: the handler takes every exception of the try block.
story_except(exception) == exception # "none"

\* A version that gives up without a request when there is no description.
generate_story_needs_descriptions(image_data, people_names, genre, desired_length, vision_response, text_response) ==
    LET described == process_image(image_data, vision_response)
        prompt    == story_prompt(people_names, genre, desired_length, described.value)
        exc       == response_exception(text_response)
    IN  IF described.value = <<>>
        THEN [raised |-> FALSE, value |-> ErrorStory, requests |-> described.requests,
              image_content |-> described.value]
        ELSE [raised |-> FALSE,
              value |-> IF exc = "none" THEN text_response.content ELSE ErrorStory,
              requests |-> described.requests \o <<text_request(prompt)>>,
              image_content |-> described.value]

\* The vision call again, the prompt, the one text-completion request, and
\* the story of the response or, on any exception, the error string.
generate_story_from_image(image_data, people_names, genre, desired_length, vision_response, text_response) ==
    LET described == process_image(image_data, vision_response)
        prompt    == story_prompt(people_names, genre, desired_length, described.value)
        exc       == response_exception(text_response)
    IN  IF described.raised
        THEN [raised |-> TRUE, value |-> "", requests |-> described.requests,
              image_content |-> <<>>]
        ELSE IF exc = "none"
        THEN [raised |-> FALSE, value |-> text_response.content,
              requests |-> described.requests \o <<text_request(prompt)>>,
              image_content |-> described.value]
        ELSE IF story_except(exc)
        THEN [raised |-> FALSE, value |-> ErrorStory,
              requests |-> described.requests \o <<text_request(prompt)>>,
              image_content |-> described.value]
        ELSE [raised |-> TRUE, value |-> "",
              requests |-> described.requests \o <<text_request(prompt)>>,
              image_content |-> described.value]

----------------------------------------------------------------------------
(* generate_story_from_image called directly *)

NameSamples == {<<"J">>, <<"K", "J">>, <<" ">>}

SliderValues ==
    {slider_min + slider_step * k : k \in 0..((slider_max - slider_min) \div slider_step)}

GenreSamples == {options[i] : i \in 1..Len(options)} \cup {<<"n", "o", "i", "r">>}

LengthSamples == SliderValues \cup {0, -1}

InitCompose ==
    /\ UiInit
    /\ frame \in {[pc |-> "call", image_data |-> i, people_names |-> n,
                   genre |-> g, desired_length |-> l] :
                     i \in Images, n \in SeqsUpTo(NameSamples, MaxNames),
                     g \in GenreSamples, l \in LengthSamples}

ComposeCall ==
    /\ frame.pc = "call"
    /\ \E v \in SampleVisionResponses, t \in TextResponses :
          frame' = [pc              |-> "returned",
                    image_data      |-> frame.image_data,
                    people_names    |-> frame.people_names,
                    genre           |-> frame.genre,
                    desired_length  |-> frame.desired_length,
                    vision_response |-> v,
                    text_response   |-> t,
                    ret |-> generate_story_from_image(frame.image_data,
                                frame.people_names, frame.genre,
                                frame.desired_length, v, t)]
    /\ UNCHANGED ui_vars

NextCompose == ComposeCall

SpecCompose == InitCompose /\ [][NextCompose]_vars

IsTextRequest(r) == "temperature" \in DOMAIN r

TextRequests(requests) == SelectSeq(requests, IsTextRequest)

VisionRequests(requests) == SelectSeq(requests, LAMBDA r : ~IsTextRequest(r))

\* s is in t from position p on
OccursAt(s, t, p) ==
    /\ p + Len(s) - 1 <= Len(t)
    /\ SubSeq(t, p, p + Len(s) - 1) = s

Contains(t, s) == \E p \in 1..(Len(t) + 1) : OccursAt(s, t, p)

\* every element of ss is in t, each after the end of the one before
RECURSIVE OccurInOrder(_, _, _)
OccurInOrder(ss, t, from) ==
    \/ ss = <<>>
    \/ \E p \in from..(Len(t) + 1) :
          /\ OccursAt(Head(ss), t, p)
          /\ OccurInOrder(Tail(ss), t, p + Len(Head(ss)))

\* C3: when the text-completion request fails, the call returns
\* "Error generating story." and raises nothing, for every list of names,
\* genre and length, and whether or not the vision call inside succeeded.
C3_ComposeFailureGivesSentinel ==
    (frame.pc = "returned" /\ frame.text_response.kind # "ok") =>
        /\ ~frame.ret.raised
        /\ frame.ret.value = ErrorStory

C3_Witness ==
    /\ frame.pc = "returned"
    /\ frame.text_response.kind = "no_message"
    /\ frame.vision_response.kind = "ok"
    /\ frame.genre \notin {options[i] : i \in 1..Len(options)}
    /\ frame.ret.value = ErrorStory

\* C4: the prompt of the text-completion request holds every supplied name,
\* the names in the order supplied, the genre, and the length.
C4_PromptHoldsNamesGenreLength ==
    frame.pc = "returned" =>
        \A i \in 1..Len(TextRequests(frame.ret.requests)) :
            LET prompt == TextRequests(frame.ret.requests)[i].content
            IN  /\ \A k \in 1..Len(frame.people_names) :
                       Contains(prompt, frame.people_names[k])
                /\ OccurInOrder(frame.people_names, prompt, 1)
                /\ Contains(prompt, frame.genre)
                /\ Contains(prompt, IntToStr(frame.desired_length))

C4_Witness ==
    /\ frame.pc = "returned"
    /\ frame.people_names = << <<"K", "J">>, <<"J">> >>
    /\ frame.desired_length = 150
    /\ Len(TextRequests(frame.ret.requests)) = 1
    /\ Contains(TextRequests(frame.ret.requests)[1].content,
                <<"K", "J", ",", " ", "J">>)

\* C9: with no description (the vision call gave nothing or failed),
\* generate_story_from_image still sends exactly one text-completion request
\* and returns the text of the response, or the error string when the
\* request fails; it raises nothing.
C9_NoDescriptionStillOneRequest ==
    (frame.pc = "returned" /\ frame.ret.image_content = <<>>) =>
        /\ ~frame.ret.raised
        /\ Len(TextRequests(frame.ret.requests)) = 1
        /\ frame.text_response.kind = "ok" =>
               frame.ret.value = frame.text_response.content
        /\ frame.text_response.kind # "ok" => frame.ret.value = ErrorStory

C9_Witness ==
    /\ frame.pc = "returned"
    /\ frame.vision_response.kind = "http_error"
    /\ frame.ret.image_content = <<>>
    /\ Len(TextRequests(frame.ret.requests)) = 1
    /\ frame.text_response.kind = "ok"
    /\ frame.ret.value = "Alex crept through the fog..."

----------------------------------------------------------------------------
(* run(): the widgets and their callbacks.  The kernel runs one callback at *)
(* a time, each to its end.                                                 *)

UploadImages == {<<>>, <<255>>}

\* file_upload.value: the uploaded files, none or (multiple=False) one
FileUploadValues == {<<>>} \cup {<<[content |-> i]>> : i \in UploadImages}

UiVisionResponses == {r \in SampleVisionResponses : r.kind \in {"ok", "http_error"}}

UiTextResponses ==
    {r \in TextResponses : r.kind = "connection_error" \/ (r.kind = "ok" /\ r.content # "")}

\* what the user may have typed into a name input
NameValues == {<<>>, <<" ">>, <<"J">>}

GenreChoices == {options[1], options[3]}

LengthChoices == {slider_value, slider_value - slider_step}

stdout(text) == [view |-> "stdout", text |-> text]

\* A check that lets every result through.
no_descriptions_unchecked(person_descriptions) == FALSE

\* not person_descriptions
no_descriptions(person_descriptions) == person_descriptions = <<>>

\* file_upload.observe: on_button_click(None) on a change of file_upload.value,
\* here to `value`, with `response` what the endpoint answers.
on_button_click(value, response) ==
    /\ pending = <<>>
    /\ value # file_upload
    /\ file_upload' = value
    /\ fired' = <<>>
    /\ composed' = NoCall
    /\ IF value = <<>>
       THEN /\ displayed' = <<stdout("Please upload an image.")>>
            /\ sent' = <<>>
            /\ UNCHANGED <<handlers, uploads, nVision>>
       ELSE LET uploaded_image == value[1].content
                described == process_image(uploaded_image, response)
                person_descriptions == described.value
                upload == Len(uploads) + 1
            IN  /\ Len(uploads) + nClicks < MaxEvents
                /\ sent' = described.requests
                /\ nVision' = nVision + Len(described.requests)
                /\ uploads' = Append(uploads, [uploaded_image |-> uploaded_image,
                                               person_descriptions |-> person_descriptions])
                /\ IF no_descriptions(person_descriptions)
                   THEN /\ displayed' = <<stdout("Failed to process image.")>>
                        /\ UNCHANGED handlers
                   ELSE /\ displayed' = <<[view |-> "VBox",
                                           name_inputs |-> person_descriptions]>>
                        /\ handlers' = Append(handlers,
                                          [upload         |-> upload,
                                           uploaded_image |-> uploaded_image,
                                           name_inputs    |-> person_descriptions])
    /\ UNCHANGED <<genre_input, length_input, pending, nText, nStories, nClicks, frame>>

ValueChange ==
    \E value \in FileUploadValues, response \in UiVisionResponses :
        on_button_click(value, response)

\* The user picks a genre in the Dropdown.
SetGenre ==
    /\ pending = <<>>
    /\ \E g \in GenreChoices : g # genre_input /\ genre_input' = g
    /\ UNCHANGED <<file_upload, length_input, handlers, pending, fired, sent, displayed, uploads,
                   nVision, nText, nStories, nClicks, composed, frame>>

\* The user moves the IntSlider.
SetLength ==
    /\ pending = <<>>
    /\ \E l \in LengthChoices : l # length_input /\ length_input' = l
    /\ UNCHANGED <<file_upload, genre_input, handlers, pending, fired, sent, displayed, uploads,
                   nVision, nText, nStories, nClicks, composed, frame>>

\* A click of generate_button: every callback registered with on_click is
\* called, in the order of registration.
Click ==
    /\ pending = <<>>
    /\ Len(uploads) + nClicks < MaxEvents
    /\ nClicks' = nClicks + 1
    /\ pending' = [i \in 1..Len(handlers) |-> i]
    /\ fired' = <<>>
    /\ sent' = <<>>
    /\ displayed' = <<>>
    /\ composed' = NoCall
    /\ UNCHANGED <<file_upload, genre_input, length_input, handlers, uploads, nVision, nText,
                   nStories, frame>>

\* on_generate_story_click of the closure h, with `values` the texts of its
\* name inputs and the answers of the endpoint to the two requests.
on_generate_story_click(h, values, vision_response, text_response) ==
    LET people_names == SelectSeq(values, LAMBDA v : strip(v) # <<>>)
        genre  == genre_input
        length == length_input
        story  == generate_story_from_image(h.uploaded_image, people_names, genre,
                                            length, vision_response, text_response)
    IN  /\ fired' = Append(fired, [upload |-> h.upload, generated |-> people_names # <<>>])
        /\ pending' = Tail(pending)
        /\ IF people_names = <<>>
           THEN /\ displayed' = <<stdout("Please provide valid names.")>>
                /\ sent' = <<>>
                /\ composed' = NoCall
                /\ UNCHANGED <<nVision, nText, nStories>>
           ELSE /\ sent' = story.requests
                /\ displayed' = <<[view |-> "HTML", heading |-> "Generated Story:",
                                   story |-> story.value]>>
                /\ composed' = [pc |-> "returned", upload |-> h.upload,
                                people_names |-> people_names,
                                image_content |-> story.image_content]
                /\ nStories' = nStories + 1
                /\ nVision' = nVision + Len(VisionRequests(story.requests))
                /\ nText' = nText + Len(TextRequests(story.requests))
        /\ UNCHANGED <<file_upload, genre_input, length_input, handlers, uploads, nClicks,
                       frame>>

RunHandler ==
    /\ pending # <<>>
    /\ LET h == handlers[Head(pending)]
       IN  \E values \in [1..Len(h.name_inputs) -> NameValues],
              vision_response \in UiVisionResponses,
              text_response \in UiTextResponses :
                on_generate_story_click(h, values, vision_response, text_response)

Init == UiInit /\ frame = NoCall

Next == ValueChange \/ SetGenre \/ SetLength \/ Click \/ RunHandler

Spec == Init /\ [][Next]_vars

\* C5: the error string of generate_story_from_image is never rendered under
\* the "Generated Story:" heading.
C5_SentinelNeverShownAsStory ==
    \A i \in 1..Len(displayed) :
        displayed[i].view = "HTML" => displayed[i].story # ErrorStory

\* C6: an upload for which process_image gave the empty sequence gets no
\* name inputs and no click callback, and no story is ever requested for it.
C6_EmptyDescribeIsTerminal ==
    \A u \in 1..Len(uploads) :
        uploads[u].person_descriptions = <<>> =>
            /\ \A k \in 1..Len(handlers) : handlers[k].upload # u
            /\ \A k \in 1..Len(fired) : fired[k].upload # u
            /\ composed.pc = "returned" => composed.upload # u
            /\ (u = Len(uploads) /\ fired = <<>>) =>
                   \A k \in 1..Len(displayed) : displayed[k].view # "VBox"

C6_Witness ==
    /\ Len(uploads) = 2
    /\ uploads[2].person_descriptions = <<>>
    /\ pending = <<>>
    /\ composed.pc = "returned"
    /\ composed.upload = 1
    /\ Len(TextRequests(sent)) = 1

\* C7: one uploaded image followed by one story generation sends exactly one
\* vision request and exactly one text-completion request.
C7_OneRequestPerStage ==
    (Len(uploads) = 1 /\ nStories = 1 /\ pending = <<>>) =>
        (nVision = 1 /\ nText = 1)

\* C8: in every text-completion request, the names in the prompt are no more
\* than the descriptions of the image in that prompt.
C8_NamesWithinDescriptions ==
    composed.pc = "returned" =>
        Len(composed.people_names) <= Len(composed.image_content)

\* C10: when every upload was described, one click generates a story once
\* at most, and only for the latest upload: the callbacks of earlier uploads
\* generate nothing.
C10_OnlyLatestUploadGenerates ==
    (/\ pending = <<>>
     /\ \A u \in 1..Len(uploads) : uploads[u].person_descriptions # <<>>) =>
        LET generated == SelectSeq(fired, LAMBDA f : f.generated)
        IN  /\ Len(generated) <= 1
            /\ \A k \in 1..Len(generated) : generated[k].upload = Len(uploads)

====
